---------------------------- MODULE Spec2Model ----------------------------
(***************************************************************************)
(* Garden-mart product bot (src/main.py): the product catalog kept in      *)
(* products.json, mutated by the /product_add command and by the select    *)
(* menu of /product_remove, and mirrored to a GitHub repository through    *)
(* the Contents API.                                                       *)
(*                                                                         *)
(* Execution model.  The bot is one discord.py process: every command and  *)
(* every component callback is a coroutine on a single asyncio event loop. *)
(* A coroutine gives up the loop only at an `await`; load_products,        *)
(* save_products_atomic and the `requests` calls of github_update_file are *)
(* blocking calls with no await among them.  The model therefore gives     *)
(* each coroutine a program counter and lets it step only while no other   *)
(* coroutine is inside such a segment (LoopFree).  The file system, the    *)
(* remote repository, the wall clock and a crash of the process are        *)
(* outside the loop and interleave with every step.                        *)
(***************************************************************************)
EXTENDS Integers, Sequences, FiniteSets, TLC

\* ---------------------------------------------------------------- bounds
MaxId == 5
MaxLen == 3
MaxRecords == 30
NumAdds == 2
NumSessions == 2
MaxOps == 3
MaxCrashes == 1
MaxExternal == 1

\* ------------------------------------------------------ program constants
MaxOptions == 25
MaxSizeBytes == 5 * 1024 * 1024

Names == {"a", "b"}
ALLOWED_EXT == {".png", ".jpg", ".jpeg", ".webp", ".gif"}

AddProcs == 1..NumAdds
CB == NumAdds + 1
NoProc == NumAdds + 2
Procs == AddProcs \cup {CB}
Sessions == 1..NumSessions

VARIABLES
    file,        \* products.json on disk
    tmpfile,     \* the mkstemp file of each coroutine's save in progress
    orphans,     \* temporary files left behind by a crashed process
    pc,          \* position of each coroutine
    loc,         \* local variables of each coroutine
    sess,        \* the ProductRemoveView objects and what they show
    remote,      \* products.json in the GitHub repository
    configured,  \* GITHUB_TOKEN and GITHUB_OWNER and GITHUB_REPO
    freed,       \* ids removed since the process started
    ops,         \* operations started (bounded by MaxOps)
    crashes,     \* crashes so far (bounded by MaxCrashes)
    external     \* pushes by other writers (bounded by MaxExternal)

vars == <<file, tmpfile, orphans, pc, loc, sess, remote, configured, freed,
          ops, crashes, external>>

\* ------------------------------------------------------------ data model
Rec(i, n) == [id |-> i, name |-> n]

\* A file is absent, holds a complete serialization (json.dumps) of a list,
\* or holds a truncated one.
Absent == [kind |-> "absent", data |-> << >>]
Whole(d) == [kind |-> "whole", data |-> d]
Partial(d) == [kind |-> "partial", data |-> d]

Ids(products) == {products[i].id : i \in DOMAIN products}

UniqueIds(products) ==
    \A i, j \in DOMAIN products : products[i].id = products[j].id => i = j

\* load_products: FileNotFoundError and JSONDecodeError both give [].
load_products(f) == IF f.kind = "whole" THEN f.data ELSE << >>

MaxOf(S) == CHOOSE m \in S : \A x \in S : x <= m

next_id_after_last(products) ==
    IF products = << >> THEN 1 ELSE products[Len(products)].id + 1

next_id_no_increment(products) ==
    IF products = << >> THEN 1 ELSE MaxOf(Ids(products))

next_id(products) ==
    IF products = << >> THEN 1 ELSE MaxOf(Ids(products)) + 1

UpToId(products, product_id) ==
    IF \E i \in DOMAIN products : products[i].id = product_id
    THEN LET k == CHOOSE i \in DOMAIN products :
                    /\ products[i].id = product_id
                    /\ \A j \in 1..(i - 1) : products[j].id # product_id
         IN SubSeq(products, 1, k - 1)
    ELSE products

\* [p for p in products if p.get("id") != product_id]
RECURSIVE WithoutId(_, _)
WithoutId(products, product_id) ==
    IF products = << >> THEN << >>
    ELSE IF Head(products).id = product_id
         THEN WithoutId(Tail(products), product_id)
         ELSE <<Head(products)>> \o WithoutId(Tail(products), product_id)

FindAlways(products, product_id) == TRUE

\* next((p for p in products if p.get("id") == product_id), None) is not None
FindProduct(products, product_id) == product_id \in Ids(products)

\* sorted(products, key=lambda x: x.get("id", 0)): a stable sort by id.
RECURSIVE InsertById(_, _)
InsertById(r, s) ==
    IF s = << >> THEN <<r>>
    ELSE IF r.id < Head(s).id THEN <<r>> \o s
         ELSE <<Head(s)>> \o InsertById(r, Tail(s))

RECURSIVE SortById(_)
SortById(products) ==
    IF products = << >> THEN << >>
    ELSE InsertById(products[Len(products)],
                    SortById(SubSeq(products, 1, Len(products) - 1)))

Unlimited(sorted_products) == sorted_products

\* sorted_products[:25]
Limited(sorted_products) ==
    SubSeq(sorted_products, 1,
           IF Len(sorted_products) < MaxOptions THEN Len(sorted_products)
           ELSE MaxOptions)

\* ------------------------------------------------------------ validation
NoImage == [present |-> FALSE, size |-> 0, ext |-> ""]

\* The attachments of the model: payloads of 0 bytes, of the limit and of one
\* byte more, named with an allowed extension as the upload has it (upper
\* case) or with one that is not allowed.
Images ==
    {NoImage} \cup
    [present : {TRUE}, size : {0, MaxSizeBytes, MaxSizeBytes + 1},
     ext : {".PNG", ".txt"}]

\* image.filename.lower(), on the extensions of the model.
Lower(ext) == IF ext = ".PNG" THEN ".png" ELSE ext

ValidateExtFirst(image) ==
    IF ~image.present THEN "missing_image"
    ELSE IF Lower(image.ext) \notin ALLOWED_EXT THEN "bad_ext"
    ELSE IF image.size > MaxSizeBytes THEN "too_large"
    ELSE "ok"

\* product_add's checks, in the order of the code.  `if not image` tests the
\* Attachment object, which is always there and true: NoImage stands for a
\* call the command layer would have to make without one.
Validate(image) ==
    IF ~image.present THEN "missing_image"
    ELSE IF image.size > MaxSizeBytes THEN "too_large"
    ELSE IF Lower(image.ext) \notin ALLOWED_EXT THEN "bad_ext"
    ELSE "ok"

ValidationErrors == {"missing_image", "too_large", "bad_ext"}

\* ----------------------------------------------------------- coroutines
\* An HTTP status; NoResponse stands for a `requests` exception.
NoResponse == 0

Suspended == {"idle", "reading"}
SavePcs == {"mkstemp", "write", "replace", "cleanup"}
MirrorPcs == {"img_get", "img_put", "cat_get", "cat_put"}

\* The local variables of a handler.  image: the attachment, until it has
\* been read; asset: local_path has been written; get_resp: the answer to
\* the GET of the github_update_file call in progress; responded: interaction.response has been used (the reply is
\* the last statement of every path, after which the frame is gone).
InitLoc ==
    [products |-> << >>, before |-> Absent, content |-> << >>, id |-> 0,
     name |-> "", sha |-> 0, ghImg |-> "none", ghCat |-> "none",
     reply |-> "", reqs |-> << >>, sid |-> 0, late |-> FALSE,
     freedBefore |-> {}, image |-> NoImage, asset |-> FALSE,
     get_resp |-> NoResponse, responded |-> FALSE]

InitSess ==
    [view |-> "none", offered |-> << >>, passed |-> FALSE, shown |-> FALSE,
     outcome |-> "none", honored |-> 0, lateHonored |-> FALSE]

Preemptive(p) == TRUE

\* No other coroutine is between two awaits: the loop can run coroutine p.
LoopFree(p) == \A q \in Procs \ {p} : pc[q] \in Suspended

IsAdd(p) == p \in AddProcs

SuccessReply(p) == IF IsAdd(p) THEN "added" ELSE "removed"
FailureReply(p) == IF IsAdd(p) THEN "save_failed" ELSE "delete_failed"

AfterSaveMirrors(p) == IF IsAdd(p) THEN "img_get" ELSE "cat_get"

\* Where the handler continues after save_products_atomic returned.
AfterSave(p) ==
    IF configured THEN (IF IsAdd(p) THEN "img_get" ELSE "cat_get")
    ELSE "respond"

SaveFailedFallsThrough(p) == AfterSave(p)

\* The except block around save_products_atomic sends the failure and returns.
SaveFailedNext(p) == "respond"

\* products.json as the process finds it: not there yet, or a catalog whose
\* records need not be in id order.
InitFiles == {Absent, Whole(<<Rec(2, "b"), Rec(1, "a")>>)}

NoRemote == [exists |-> FALSE, sha |-> 0, data |-> << >>]

Init ==
    /\ file \in InitFiles
    /\ tmpfile = [p \in Procs |-> Absent]
    /\ orphans = 0
    /\ pc = [p \in Procs |-> "idle"]
    /\ loc = [p \in Procs |-> InitLoc]
    /\ sess = [s \in Sessions |-> InitSess]
    /\ configured \in BOOLEAN
    /\ remote = NoRemote
    /\ freed = {}
    /\ ops = 0
    /\ crashes = 0
    /\ external = 0

\* ------------------------------------------------------------ product_add
\* Lines 189-230: validation, then `await image.read()`.
product_add_start(a) ==
    /\ pc[a] = "idle"
    /\ \A b \in AddProcs : b < a => pc[b] # "idle"
    /\ LoopFree(a)
    /\ ops < MaxOps
    /\ \E image \in Images :
         LET v == Validate(image) IN
         IF v = "ok"
         THEN /\ pc' = [pc EXCEPT ![a] = "reading"]
              /\ loc' = [loc EXCEPT
                           ![a] = [InitLoc EXCEPT !.image = image,
                                                  !.freedBefore = freed]]
              /\ ops' = ops + 1
         ELSE /\ pc' = [pc EXCEPT ![a] = "respond"]
              /\ loc' = [loc EXCEPT
                           ![a] = [InitLoc EXCEPT !.image = image,
                                                  !.reply = v]]
              /\ ops' = ops
    /\ UNCHANGED <<file, tmpfile, orphans, sess, remote, configured, freed,
                   crashes, external>>

\* Lines 228-253: the attachment is read and written to local_path, then
\* the new record is appended to the loaded list.  From here on the model
\* keeps of the attachment only that its file is there.  The name argument
\* is drawn here, where the handler first uses it.
product_add_read(a) ==
    /\ pc[a] = "reading"
    /\ LoopFree(a)
    /\ \E ok \in BOOLEAN, name \in Names :
         IF ok
         THEN LET products == load_products(file)
                  new_id == next_id(products)
              IN /\ pc' = [pc EXCEPT ![a] = "mkstemp"]
                 /\ loc' = [loc EXCEPT
                              ![a].name = name,
                              ![a].products =
                                  Append(products, Rec(new_id, name)),
                              ![a].before = file,
                              ![a].id = new_id,
                              ![a].image = NoImage,
                              ![a].asset = TRUE]
         ELSE /\ pc' = [pc EXCEPT ![a] = "respond"]
              /\ loc' = [loc EXCEPT ![a].reply = "image_save_failed",
                                    ![a].image = NoImage]
    /\ UNCHANGED <<file, tmpfile, orphans, sess, remote, configured, freed,
                   ops, crashes, external>>

\* --------------------------------------------------- save_products_atomic
\* Line 56: tempfile.mkstemp, outside the try block: a failure raises to the
\* handler and leaves nothing behind.
save_mkstemp(p) ==
    /\ pc[p] = "mkstemp"
    /\ LoopFree(p)
    /\ \E ok \in BOOLEAN :
         IF ok
         THEN /\ tmpfile' = [tmpfile EXCEPT ![p] = Partial(<< >>)]
              /\ pc' = [pc EXCEPT ![p] = "write"]
              /\ loc' = loc
         ELSE /\ tmpfile' = tmpfile
              /\ pc' = [pc EXCEPT ![p] = SaveFailedNext(p)]
              /\ loc' = [loc EXCEPT ![p].reply = FailureReply(p)]
    /\ UNCHANGED <<file, orphans, sess, remote, configured, freed, ops,
                   crashes, external>>

\* A non-atomic save: the serialization is written over the target itself.
save_write_in_place(p) ==
    /\ pc[p] = "write"
    /\ LoopFree(p)
    /\ \E k \in 0..Len(loc[p].products) :
         IF k = Len(loc[p].products)
         THEN /\ file' = Whole(loc[p].products)
              /\ pc' = [pc EXCEPT ![p] = "replace"]
         ELSE /\ file' = Partial(SubSeq(loc[p].products, 1, k))
              /\ pc' = [pc EXCEPT ![p] = "cleanup"]
    /\ tmpfile' = [tmpfile EXCEPT ![p] = Whole(loc[p].products)]
    /\ UNCHANGED <<loc, orphans, sess, remote, configured, freed, ops,
                   crashes, external>>

\* Lines 58-59: f.write(data) into the temporary file; a failed write (disk
\* full) leaves a truncated temporary file and raises.
save_write(p) ==
    /\ pc[p] = "write"
    /\ LoopFree(p)
    /\ \E k \in 0..Len(loc[p].products) :
         IF k = Len(loc[p].products)
         THEN /\ tmpfile' = [tmpfile EXCEPT ![p] = Whole(loc[p].products)]
              /\ pc' = [pc EXCEPT ![p] = "replace"]
         ELSE /\ tmpfile' = [tmpfile EXCEPT
                                ![p] = Partial(SubSeq(loc[p].products, 1, k))]
              /\ pc' = [pc EXCEPT ![p] = "cleanup"]
    /\ UNCHANGED <<file, loc, orphans, sess, remote, configured, freed, ops,
                   crashes, external>>

\* Line 60: os.replace(tmp, path).  On success the handler goes on: the
\* callback has then removed loc[p].id from the catalog.
save_replace(p) ==
    /\ pc[p] = "replace"
    /\ LoopFree(p)
    /\ \E ok \in BOOLEAN :
         IF ok
         THEN /\ file' = tmpfile[p]
              /\ tmpfile' = [tmpfile EXCEPT ![p] = Absent]
              /\ pc' = [pc EXCEPT ![p] = AfterSave(p)]
              /\ loc' = [loc EXCEPT ![p].reply = SuccessReply(p)]
              /\ freed' = IF IsAdd(p) THEN freed ELSE freed \cup {loc[p].id}
              /\ sess' = IF IsAdd(p) THEN sess
                         ELSE [sess EXCEPT
                                 ![loc[p].sid].honored = @ + 1,
                                 ![loc[p].sid].lateHonored = @ \/ loc[p].late]
         ELSE /\ pc' = [pc EXCEPT ![p] = "cleanup"]
              /\ UNCHANGED <<file, tmpfile, loc, freed, sess>>
    /\ UNCHANGED <<orphans, remote, configured, ops, crashes, external>>

\* Lines 61-66: os.remove(tmp), then the exception is raised again and the
\* handler's except block reports the failure.  The removal of the file that
\* mkstemp just created is taken to succeed (an error of os.remove would be
\* swallowed by lines 64-65 and leave the file behind).
save_cleanup(p) ==
    /\ pc[p] = "cleanup"
    /\ LoopFree(p)
    /\ tmpfile' = [tmpfile EXCEPT ![p] = Absent]
    /\ pc' = [pc EXCEPT ![p] = SaveFailedNext(p)]
    /\ loc' = [loc EXCEPT ![p].reply = FailureReply(p)]
    /\ UNCHANGED <<file, orphans, sess, remote, configured, freed, ops,
                   crashes, external>>

\* ---------------------------------------------------- github_update_file
\* Lines 79-80: without a token the function returns (False, "No GitHub
\* token provided.") before any request.  The handlers test the token
\* themselves (lines 272, 387) and call with a token only.
github_update_file(token) == IF ~token THEN "disabled" ELSE "GET"

GetContinuesAny(status) == TRUE

\* Lines 91-97: 200 and 404 go on to the PUT, any other status returns False.
GetContinues(status) == status \in {200, 404}

\* Lines 90-95: sha stays None unless the GET answered 200.
ShaFrom(status, bodySha) == IF status = 200 THEN bodySha ELSE 0

PutAlwaysOk(status) == TRUE

\* Lines 109-112.
PutOk(status) == status \in {200, 201}

PutRetries(status) ==
    IF status \in {200, 201} THEN "respond" ELSE "cat_get"

\* Lines 109-112: both branches return; the handler goes on to its reply.
PutReturns(status) == "respond"

ContentAsLoaded(p) == loc[p].before.data

\* Lines 295-296 and 388-389: the bytes pushed are read back from
\* products.json after the save.
MirrorContent(p) == file.data

\* The request that the call sends at each position.
RequestAt(c) ==
    CASE c = "img_get" -> "GET img"
      [] c = "img_put" -> "PUT img"
      [] c = "cat_get" -> "GET cat"
      [] c = "cat_put" -> "PUT cat"

PropagateMirrorError(reply) == "error"

\* Lines 290-292, 308-310, 401-402: an exception of the mirror call is
\* caught; the reply of the operation stays what the local save made it.
HandleMirrorError(reply) == reply

\* The Contents API: an update must carry the current sha, a create none.
RemoteAccepts(r, sha) == IF r.exists THEN sha = r.sha ELSE sha = 0

PutStatuses(r, sha) ==
    (IF RemoteAccepts(r, sha) THEN {IF r.exists THEN 200 ELSE 201}
     ELSE {IF sha = 0 THEN 422 ELSE 409})
    \cup {500, NoResponse}

GetStatuses(r) == {IF r.exists THEN 200 ELSE 404, 500, NoResponse}

AfterPut(r, status, content) ==
    IF status \in {200, 201}
    THEN [exists |-> TRUE, sha |-> r.sha + 1, data |-> content]
    ELSE r

\* Lines 273-292 with 88-97: GET of images/<filename>.  The image store of
\* the repository is not tracked: the path may or may not exist there.
img_get(a) ==
    /\ pc[a] = "img_get"
    /\ LoopFree(a)
    /\ \E status \in {200, 404, 500, NoResponse} :
         /\ loc' = [loc EXCEPT
                      ![a].reqs = Append(@, "GET img"),
                      ![a].get_resp =
                          IF status # NoResponse /\ GetContinues(status)
                          THEN status ELSE NoResponse,
                      ![a].sha = ShaFrom(status, 1),
                      ![a].ghImg = IF status # NoResponse /\ GetContinues(status)
                                   THEN @ ELSE "fail",
                      ![a].reply = IF status = NoResponse
                                   THEN HandleMirrorError(@) ELSE @]
         /\ pc' = [pc EXCEPT
                     ![a] = IF status # NoResponse /\ GetContinues(status)
                            THEN "img_put" ELSE "cat_get"]
    /\ UNCHANGED <<file, tmpfile, orphans, sess, remote, configured, freed,
                   ops, crashes, external>>

\* Lines 99-112 for the image.
img_put(a) ==
    /\ pc[a] = "img_put"
    /\ LoopFree(a)
    /\ \E status \in {201, 422, NoResponse} :
         /\ loc' = [loc EXCEPT
                      ![a].reqs = Append(@, "PUT img"),
                      ![a].get_resp = NoResponse,
                      ![a].sha = 0,
                      ![a].ghImg = IF status # NoResponse /\ PutOk(status)
                                   THEN "ok" ELSE "fail",
                      ![a].reply = IF status = NoResponse
                                   THEN HandleMirrorError(@) ELSE @]
         /\ pc' = [pc EXCEPT ![a] = "cat_get"]
    /\ UNCHANGED <<file, tmpfile, orphans, sess, remote, configured, freed,
                   ops, crashes, external>>

\* Lines 294-310 and 385-402 with 88-97: products.json is read back from
\* disk, then GET of products.json in the repository.
cat_get(p) ==
    /\ pc[p] = "cat_get"
    /\ LoopFree(p)
    /\ \E status \in GetStatuses(remote) :
         /\ loc' = [loc EXCEPT
                      ![p].reqs = Append(@, "GET cat"),
                      ![p].get_resp =
                          IF status # NoResponse /\ GetContinues(status)
                          THEN status ELSE NoResponse,
                      ![p].content = MirrorContent(p),
                      ![p].sha = ShaFrom(status, remote.sha),
                      ![p].ghCat = IF status # NoResponse /\ GetContinues(status)
                                   THEN @ ELSE "fail",
                      ![p].reply = IF status = NoResponse
                                   THEN HandleMirrorError(@) ELSE @]
         /\ pc' = [pc EXCEPT
                     ![p] = IF status # NoResponse /\ GetContinues(status)
                            THEN "cat_put" ELSE "respond"]
    /\ UNCHANGED <<file, tmpfile, orphans, sess, remote, configured, freed,
                   ops, crashes, external>>

\* Lines 99-112 for products.json.
cat_put(p) ==
    /\ pc[p] = "cat_put"
    /\ LoopFree(p)
    /\ \E status \in PutStatuses(remote, loc[p].sha) :
         /\ remote' = AfterPut(remote, status, loc[p].content)
         /\ loc' = [loc EXCEPT
                      ![p].reqs = Append(@, "PUT cat"),
                      ![p].get_resp = NoResponse,
                      ![p].ghCat = IF status # NoResponse /\ PutOk(status)
                                   THEN "ok" ELSE "fail",
                      ![p].reply = IF status = NoResponse
                                   THEN HandleMirrorError(@) ELSE @]
         /\ pc' = [pc EXCEPT ![p] = IF status = NoResponse THEN "respond"
                                    ELSE PutReturns(status)]
    /\ UNCHANGED <<file, tmpfile, orphans, sess, configured, freed, ops,
                   crashes, external>>

\* Lines 89 and 108: requests.get and requests.put are called without a
\* timeout.  When the remote takes the request and never answers, the call
\* does not return: the handler, and with it the event loop, stays there.
request_hangs(p) ==
    /\ pc[p] \in MirrorPcs
    /\ LoopFree(p)
    /\ pc' = [pc EXCEPT ![p] = "blocked"]
    /\ loc' = [loc EXCEPT ![p].reqs = Append(@, RequestAt(pc[p]))]
    /\ UNCHANGED <<file, tmpfile, orphans, sess, remote, configured, freed,
                   ops, crashes, external>>

\* Lines 260-265, 312-332 (send_message) and 366-370, 377-381, 417
\* (edit_message with view=None): the reply is sent and the handler ends.
respond(p) ==
    /\ pc[p] = "respond"
    /\ LoopFree(p)
    /\ pc' = [pc EXCEPT ![p] = "idle"]
    /\ loc' = [loc EXCEPT ![p] = InitLoc]
    /\ sess' = IF IsAdd(p) THEN sess
               ELSE [sess EXCEPT ![loc[p].sid].shown = FALSE,
                                 ![loc[p].sid].outcome = loc[p].reply]
    /\ UNCHANGED <<file, tmpfile, orphans, remote, configured, freed, ops,
                   crashes, external>>

\* --------------------------------------------------------- product_remove
\* Lines 426-450: the command offers the first 25 records by id in a view.
product_remove(s) ==
    /\ sess[s].view = "none"
    /\ \A r \in Sessions : r < s => sess[r].view # "none"
    /\ LoopFree(NoProc)
    /\ ops < MaxOps
    /\ LET products == load_products(file)
           limited == Limited(SortById(products))
       IN IF products = << >>
          THEN /\ sess' = sess
               /\ ops' = ops
          ELSE /\ sess' = [sess EXCEPT
                             ![s] = [InitSess EXCEPT
                                       !.view = "listening",
                                       !.offered = [i \in 1..Len(limited) |->
                                                      limited[i].id],
                                       !.shown = TRUE]]
               /\ ops' = ops + 1
    /\ UNCHANGED <<file, tmpfile, orphans, pc, loc, remote, configured, freed,
                   crashes, external>>

\* Lines 361-373: a choice made on the select menu of view s is dispatched
\* to ProductRemoveSelect.callback.  The view takes interactions as long as
\* it has not timed out: the callback does not stop it.
callback(s, product_id) ==
    /\ sess[s].view = "listening"
    /\ \E i \in DOMAIN sess[s].offered : sess[s].offered[i] = product_id
    /\ pc[CB] = "idle"
    /\ LoopFree(CB)
    /\ ops < MaxOps
    /\ LET products == load_products(file)
           found == FindProduct(products, product_id)
       IN /\ loc' = [loc EXCEPT
                       ![CB] = [InitLoc EXCEPT
                                  !.sid = s,
                                  !.id = product_id,
                                  !.late = sess[s].passed,
                                  !.before = file,
                                  !.products =
                                      IF found
                                      THEN WithoutId(products, product_id)
                                      ELSE products,
                                  !.reply =
                                      IF found THEN "" ELSE "not_found"]]
          /\ pc' = [pc EXCEPT ![CB] = IF found THEN "mkstemp" ELSE "respond"]
    /\ ops' = ops + 1
    /\ UNCHANGED <<file, tmpfile, orphans, sess, remote, configured, freed,
                   crashes, external>>

\* Lines 420-421: the wall clock reaches the deadline of view s ...
deadline(s) ==
    /\ sess[s].view = "listening"
    /\ ~sess[s].passed
    /\ sess' = [sess EXCEPT ![s].passed = TRUE]
    /\ UNCHANGED <<file, tmpfile, orphans, pc, loc, remote, configured, freed,
                   ops, crashes, external>>

\* ... and the view's timeout task, once the loop runs it, stops the view.
view_timeout(s) ==
    /\ sess[s].view = "listening"
    /\ sess[s].passed
    /\ LoopFree(NoProc)
    /\ sess' = [sess EXCEPT ![s].view = "stopped"]
    /\ UNCHANGED <<file, tmpfile, orphans, pc, loc, remote, configured, freed,
                   ops, crashes, external>>

\* ------------------------------------------------------------ environment
\* The process dies (and is started again): coroutines and views are gone,
\* the files stay as they are.
Crash ==
    /\ crashes < MaxCrashes
    /\ \E p \in Procs : tmpfile[p] # Absent
    /\ crashes' = crashes + 1
    /\ orphans' = orphans + Cardinality({p \in Procs : tmpfile[p] # Absent})
    /\ tmpfile' = [p \in Procs |-> Absent]
    /\ pc' = [p \in Procs |-> "idle"]
    /\ loc' = [p \in Procs |-> InitLoc]
    /\ sess' = [s \in Sessions |-> InitSess]
    /\ freed' = {}
    /\ UNCHANGED <<file, remote, configured, ops, external>>

\* Another writer commits products.json to the repository.
ExternalPush ==
    /\ configured
    /\ \E p \in Procs : pc[p] \in {"cat_get", "cat_put"}
    /\ external < MaxExternal
    /\ external' = external + 1
    /\ remote' = [exists |-> TRUE, sha |-> remote.sha + 1, data |-> << >>]
    /\ UNCHANGED <<file, tmpfile, orphans, pc, loc, sess, configured, freed,
                   ops, crashes>>

Next ==
    \/ \E a \in AddProcs : product_add_start(a)
    \/ \E a \in AddProcs : product_add_read(a)
    \/ \E p \in Procs : save_mkstemp(p)
    \/ \E p \in Procs : save_write(p)
    \/ \E p \in Procs : save_replace(p)
    \/ \E p \in Procs : save_cleanup(p)
    \/ \E a \in AddProcs : img_get(a)
    \/ \E a \in AddProcs : img_put(a)
    \/ \E p \in Procs : cat_get(p)
    \/ \E p \in Procs : cat_put(p)
    \/ \E p \in Procs : respond(p)
    \/ \E s \in Sessions : product_remove(s)
    \/ \E s \in Sessions, i \in 1..(MaxOps + 3) : callback(s, i)
    \/ \E s \in Sessions : deadline(s)
    \/ \E s \in Sessions : view_timeout(s)
    \/ Crash
    \/ ExternalPush

Spec == Init /\ [][Next]_vars

\* The steps of handler p that the running process takes by itself: the
\* blocking calls go on as the file system and the remote answer, and an
\* awaited read is resumed by the loop once it is free.
HandlerStep(p) ==
    \/ p \in AddProcs /\ product_add_read(p)
    \/ save_mkstemp(p)
    \/ save_write(p)
    \/ save_replace(p)
    \/ save_cleanup(p)
    \/ p \in AddProcs /\ img_get(p)
    \/ p \in AddProcs /\ img_put(p)
    \/ cat_get(p)
    \/ cat_put(p)
    \/ respond(p)

\* Termination is checked with a remote that may also stay silent.
FairNext == Next \/ \E p \in Procs : request_hangs(p)

\* The process keeps running every handler that can go on, and the loop
\* resumes its ready coroutines in turn: one that is ready again and again
\* is resumed.  Nothing is assumed of the remote: it may answer, refuse, or
\* stay silent.
FairSpec ==
    /\ Init
    /\ [][FairNext]_vars
    /\ \A p \in Procs : SF_vars(HandlerStep(p))

\* ------------------------------------------- next_id on given snapshots
\* products.json with up to MaxLen records of distinct ids up to MaxId, in
\* every order and with every gap.
IdFiles ==
    {Absent} \cup
    {Whole([i \in DOMAIN s |-> Rec(s[i], "a")]) :
        s \in {t \in UNION {[1..n -> 1..MaxId] : n \in 0..MaxLen} :
                 \A i, j \in DOMAIN t : t[i] = t[j] => i = j}}

NextIdInit ==
    /\ file \in IdFiles
    /\ tmpfile = [p \in Procs |-> Absent]
    /\ orphans = 0
    /\ pc = [p \in Procs |-> "idle"]
    /\ loc = [p \in Procs |-> InitLoc]
    /\ sess = [s \in Sessions |-> InitSess]
    /\ configured = FALSE
    /\ remote = NoRemote
    /\ freed = {}
    /\ ops = 0
    /\ crashes = 0
    /\ external = 0

\* /product_add up to the call of next_id.
NextIdNext ==
    \/ \E a \in AddProcs : product_add_start(a)
    \/ \E a \in AddProcs : product_add_read(a)

NextIdSpec == NextIdInit /\ [][NextIdNext]_vars

\* ---------------------------------------- the offer on given snapshots
\* products.json with 0 to MaxRecords records: ids n down to 1, or ids
\* 2, 3, ..., n, 1.
OfferFiles ==
    {Whole([i \in 1..n |-> Rec(n + 1 - i, "a")]) : n \in 0..MaxRecords}
    \cup {Whole([i \in 1..n |-> Rec((i % n) + 1, "b")]) : n \in 1..MaxRecords}

OfferInit ==
    /\ file \in OfferFiles
    /\ tmpfile = [p \in Procs |-> Absent]
    /\ orphans = 0
    /\ pc = [p \in Procs |-> "idle"]
    /\ loc = [p \in Procs |-> InitLoc]
    /\ sess = [s \in Sessions |-> InitSess]
    /\ configured = FALSE
    /\ remote = NoRemote
    /\ freed = {}
    /\ ops = 0
    /\ crashes = 0
    /\ external = 0

\* /product_remove alone.
OfferNext == \E s \in Sessions : product_remove(s)

OfferSpec == OfferInit /\ [][OfferNext]_vars

\* ------------------------------------------------------------------ claims

\* The step in which save_products_atomic raises to the handler of p.
SaveRaises(p) ==
    /\ crashes' = crashes
    /\ \/ pc[p] = "mkstemp" /\ pc'[p] \notin {"mkstemp", "write"}
       \/ pc[p] = "cleanup" /\ pc'[p] # "cleanup"

\* C1: an id freed by a deletion is never assigned to a record added later
\* in the same run of the process (loc[a].freedBefore: the ids freed by the
\* deletions that were complete when the add was requested).
C1_FreedIdNeverReassigned ==
    \A a \in AddProcs : pc[a] \in SavePcs => loc[a].id \notin loc[a].freedBefore

\* C2: no two records of the persisted snapshot have the same id.
C2_UniqueIds == UniqueIds(load_products(file))

C2_Witness ==
    /\ freed # {}
    /\ Len(file.data) >= 2
    /\ \E a \in AddProcs : pc[a] = "respond" /\ loc[a].reply = "added"

C4_CanInterleave ==
    \A p \in Procs, a \in AddProcs :
        (pc[p] \in SavePcs /\ pc[a] = "reading") => ENABLED product_add_read(a)

\* C4, amended: a request that is between its load and its save is the only
\* one there, and products.json still is what it loaded: its save overwrites
\* no other request's mutation.
C4_LoadToSaveSerialized ==
    \A p \in Procs :
        pc[p] \in SavePcs
            => /\ file = loc[p].before
               /\ \A q \in Procs \ {p} : pc[q] \notin SavePcs

C4_Witness ==
    \E p \in Procs, a \in AddProcs :
        /\ p # a
        /\ pc[p] = "replace"
        /\ pc[a] = "reading"

\* C5: a save that fails ends the operation with the failure reply; then
\* products.json is as it was loaded and no request went to the remote.
C5_SaveFailureAborts ==
    [][\A p \in Procs :
         /\ SaveRaises(p)
              => (pc'[p] = "respond" /\ loc'[p].reply = FailureReply(p))
         /\ loc'[p].reply \in {"save_failed", "delete_failed"}
              => /\ pc'[p] = "respond"
                 /\ loc'[p].reqs = << >>
                 /\ file' = loc'[p].before]_vars

C5_Witness ==
    \E p \in Procs :
        /\ configured
        /\ pc[p] = "respond"
        /\ loc[p].reply = FailureReply(p)
        /\ loc[p].reqs = << >>
        /\ file.kind = "whole"

\* C6: from the first mirror request to the reply, products.json is the
\* snapshot that was saved and the reply is the success reply, with the
\* outcome of the mirror calls as a flag beside it.
C6_MirrorNeverAborts ==
    \A p \in Procs :
        (pc[p] \in MirrorPcs \/ (pc[p] = "respond" /\ loc[p].reqs # << >>))
            => /\ loc[p].reply = SuccessReply(p)
               /\ file = Whole(loc[p].products)
               /\ pc[p] = "respond" => loc[p].ghCat \in {"ok", "fail"}

C6_Witness ==
    \E p \in Procs :
        /\ pc[p] = "respond"
        /\ loc[p].reply = SuccessReply(p)
        /\ loc[p].ghCat = "fail"
        /\ file = Whole(loc[p].products)

\* C7: at most one choice made on a session is honored.
C7_SingleUse == \A s \in Sessions : sess[s].honored <= 1

C9_DeadlineWins == \A s \in Sessions : ~sess[s].lateHonored

\* C10: a PUT of products.json whose sha is not the remote's current one
\* leaves the remote as it is and the call returns False; a call returns
\* True only when its sha was current and the remote took the content under
\* a new sha.
C10_StaleWriteRejected ==
    [][\A p \in Procs :
         (pc[p] = "cat_put" /\ pc'[p] = "respond")
            => /\ ~RemoteAccepts(remote, loc[p].sha)
                    => (remote' = remote /\ loc'[p].ghCat = "fail")
               /\ loc'[p].ghCat = "ok"
                    => /\ RemoteAccepts(remote, loc[p].sha)
                       /\ remote'.sha # remote.sha
                       /\ remote'.data = loc[p].content]_vars

C10_Witness ==
    \E p \in Procs :
        /\ pc[p] = "respond"
        /\ loc[p].sha # 0
        /\ loc[p].sha # remote.sha
        /\ external > 0
        /\ loc[p].ghCat = "fail"
        /\ remote.data # loc[p].content

Requests == {"GET img", "PUT img", "GET cat", "PUT cat"}

Count(seq, x) == Cardinality({i \in DOMAIN seq : seq[i] = x})

\* The step in which p's call of requests.get or requests.put returns.
RequestReturns(p) ==
    /\ pc[p] \in MirrorPcs
    /\ loc'[p].reqs # loc[p].reqs
    /\ pc'[p] # "blocked"

\* C11: a mirror call sends at most one GET and at most one PUT; a PUT that
\* the remote rejects ends the call with False: no second GET, no second
\* PUT, the remote as it was.
C11_SingleAttempt ==
    [][\A p \in Procs :
         /\ \A r \in Requests : Count(loc'[p].reqs, r) <= 1
         /\ (RequestReturns(p) /\ pc[p] = "cat_put"
                /\ ~RemoteAccepts(remote, loc[p].sha))
               => /\ pc'[p] = "respond"
                  /\ loc'[p].ghCat = "fail"
                  /\ remote' = remote]_vars

C11_Witness ==
    \E p \in Procs :
        /\ pc[p] = "respond"
        /\ loc[p].reqs # << >>
        /\ loc[p].reqs[Len(loc[p].reqs)] = "PUT cat"
        /\ loc[p].ghCat = "fail"
        /\ ~RemoteAccepts(remote, loc[p].sha)

\* C12: a PUT is sent only after a GET that answered 200 or 404; after 404
\* it carries no sha, after 200 the sha that the GET fetched; after any
\* other status the call returns False and sends no PUT.
C12_FetchDecidesWrite ==
    [][\A p \in Procs :
         LET l == loc'[p] IN
         /\ pc'[p] \in {"img_put", "cat_put"}
              => /\ l.get_resp \in {200, 404}
                 /\ l.get_resp = 404 => l.sha = 0
                 /\ l.get_resp = 200 => l.sha # 0
         /\ (pc[p] = "cat_get" /\ pc'[p] = "cat_put" /\ l.get_resp = 200)
              => l.sha = remote.sha
         /\ (RequestReturns(p) /\ pc[p] \in {"img_get", "cat_get"}
                /\ pc'[p] \notin {"img_put", "cat_put"})
              => /\ l.reqs = Append(loc[p].reqs, RequestAt(pc[p]))
                 /\ IF pc[p] = "img_get" THEN l.ghImg = "fail"
                    ELSE l.ghCat = "fail"
         /\ Count(l.reqs, "PUT img") > Count(loc[p].reqs, "PUT img")
              => pc[p] = "img_put"
         /\ Count(l.reqs, "PUT cat") > Count(loc[p].reqs, "PUT cat")
              => pc[p] = "cat_put"]_vars

C12_Witness ==
    \E p \in Procs :
        /\ pc[p] = "cat_put"
        /\ external = 0
        /\ remote.exists
        /\ loc[p].get_resp = 200
        /\ loc[p].sha = remote.sha

\* C13: without token, owner or repo no handler sends a request or enters a
\* mirror call, the remote stays as it is, and a save that succeeded goes
\* straight to the success reply; github_update_file called without a
\* token returns its failure value before any request.
C13_UnconfiguredIsLocalOnly ==
    [][/\ ~configured
          => /\ remote' = remote
             /\ \A p \in Procs :
                  /\ pc'[p] \notin MirrorPcs \cup {"blocked"}
                  /\ loc'[p].reqs = << >>
                  /\ (pc[p] = "replace" /\ file' = tmpfile[p]
                        /\ crashes' = crashes)
                       => /\ pc'[p] = "respond"
                          /\ loc'[p].reply = SuccessReply(p)
                          /\ file' = Whole(loc[p].products)
       /\ \A token \in BOOLEAN :
            ~token => github_update_file(token) = "disabled"]_vars

C13_Witness ==
    \E p \in Procs :
        /\ ~configured
        /\ pc[p] = "respond"
        /\ loc[p].reply = SuccessReply(p)
        /\ loc[p].reqs = << >>
        /\ file = Whole(loc[p].products)

\* C14: every operation that has begun ends with its reply, whatever the
\* remote does.
C14_Terminates == \A p \in Procs : (pc[p] # "idle") ~> (pc[p] = "idle")

\* C15: a handler sends its first mirror request only after it has reported
\* the success of the local save to the caller.
C15_ReportedBeforeMirror ==
    \A p \in Procs : loc[p].reqs # << >> => loc[p].responded

\* The step in which command a is invoked.
StartOfAdd(a) == pc[a] = "idle" /\ pc'[a] # "idle"

C17_AcceptedIffValid ==
    \A a \in AddProcs :
        loc[a].image.present
            => (pc[a] = "reading"
                  <=> /\ loc[a].image.size > 0
                      /\ loc[a].image.size <= MaxSizeBytes
                      /\ Lower(loc[a].image.ext) \in ALLOWED_EXT)

\* C18: the id given to a new record is 1 when the loaded snapshot is empty
\* and otherwise its largest id plus 1, in whatever order the records are.
C18_NextIdIsMaxPlusOne ==
    \A a \in AddProcs :
        pc[a] = "mkstemp"
            => LET before == load_products(loc[a].before) IN
               /\ loc[a].products[Len(loc[a].products)].id = loc[a].id
               /\ IF before = << >> THEN loc[a].id = 1
                  ELSE /\ loc[a].id - 1 \in Ids(before)
                       /\ \A i \in Ids(before) : i < loc[a].id

C18_Witness ==
    \E a \in AddProcs :
        /\ pc[a] = "mkstemp"
        /\ Ids(load_products(loc[a].before)) = {2, 5}
        /\ loc[a].before.data[1].id = 5
        /\ loc[a].id = 6

\* C19: a session opened on a snapshot of n records offers min(n, 25) ids
\* of the snapshot, in ascending order, and every id it leaves out is
\* larger than every id it offers.
C19_OffersLowest25 ==
    \A s \in Sessions :
        sess[s].view # "none"
            => LET products == load_products(file)
                   offered == sess[s].offered
                   n == Len(products)
               IN /\ Len(offered) = IF n < 25 THEN n ELSE 25
                  /\ \A i \in 1..(Len(offered) - 1) :
                       offered[i] < offered[i + 1]
                  /\ \A i \in DOMAIN offered : offered[i] \in Ids(products)
                  /\ \A x \in Ids(products) :
                       (\A i \in DOMAIN offered : offered[i] # x)
                          => \A i \in DOMAIN offered : offered[i] < x

C19_Witness ==
    \E s \in Sessions :
        /\ sess[s].view = "listening"
        /\ Len(load_products(file)) = 30
        /\ Len(sess[s].offered) = 25
        /\ sess[s].offered[1] = 1
        /\ file.data[1].id = 30

\* The remote products.json holds what the local products.json holds.
InSync == remote.exists /\ file.kind = "whole" /\ remote.data = file.data

\* C20: a mirror call of products.json that returns True leaves the remote
\* equal to the local snapshot, whatever earlier calls did; the two stay
\* equal until the next local save or another writer's push.
C20_MirrorReconciles ==
    [][/\ \A p \in Procs :
            (RequestReturns(p) /\ pc[p] = "cat_put" /\ loc'[p].ghCat = "ok")
                => InSync'
       /\ (InSync /\ file' = file /\ external' = external) => InSync']_vars

C20_Witness ==
    \E p \in Procs :
        /\ pc[p] = "respond"
        /\ loc[p].ghCat = "ok"
        /\ external = 0
        /\ remote.sha = 1
        /\ Len(file.data) = 2
        /\ file.data[1].id = 1
        /\ InSync

\* The step in which the save of p puts its serialization in place.
SaveSucceeds(p) ==
    /\ pc[p] = "replace"
    /\ pc'[p] \notin {"replace", "cleanup"}
    /\ crashes' = crashes

\* C21: a successful add leaves the records that were there as they were
\* and in their order and puts exactly one new record after them; a
\* successful remove leaves exactly the records whose id is not the chosen
\* one, as they were and in their order.
C21_FrameOfMutations ==
    [][\A p \in Procs :
         SaveSucceeds(p)
            => LET old == load_products(file)
                   new == load_products(file')
               IN /\ file'.kind = "whole"
                  /\ IF IsAdd(p)
                     THEN /\ Len(new) = Len(old) + 1
                          /\ SubSeq(new, 1, Len(old)) = old
                          /\ new[Len(new)].id = loc[p].id
                     ELSE /\ \A i \in DOMAIN new : new[i].id # loc[p].id
                          /\ \E f \in [DOMAIN new -> DOMAIN old] :
                               /\ \A i \in DOMAIN new : new[i] = old[f[i]]
                               /\ \A i, j \in DOMAIN new :
                                    i < j => f[i] < f[j]
                               /\ \A k \in DOMAIN old :
                                    old[k].id # loc[p].id
                                       => \E i \in DOMAIN new : f[i] = k]_vars

C21_Witness ==
    /\ pc[CB] = "respond"
    /\ loc[CB].reply = "removed"
    /\ Len(loc[CB].before.data) = 3
    /\ loc[CB].before.data[3].id = 3
    /\ Len(file.data) = 2
    /\ file.data[1].id = 2
    /\ file.data[2].id = 3

=============================================================================
